---- MODULE Spec2Model ----
(***************************************************************************)
(* Slite integration layer: the sliding-window RateLimiter and the         *)
(* retry_with_backoff decorator of utils.py, and the HTTP request executor *)
(* SliteAPI._make_request of slite_api.py (wrapped by backoff.on_exception).*)
(* Time is counted in whole seconds.                                       *)
(***************************************************************************)
EXTENDS Integers, Sequences, FiniteSets, TLC

\* ---- bounds of the model ------------------------------------------------
MaxTime == 7
MaxRequestsBound == 2
MaxWindow == 2
MaxRetries == 3
MaxBackoff == 1
MaxAdmitted == 4
MaxClock == 12
MaxCacheTime == 3
MaxTtl == 2
MaxIds == 2
RecursionLimit == 3
\* the failures the environment injects into one run of the NoteManager
MaxFaults == 1
\* the longest title and the longest query of the NoteManager's searches
MaxWord == 2
\* the seconds during which two threads use the RateLimiter
MaxThreadTime == 2
\* the notes the remote service creates for one SliteTools instance
MaxNotes == 2
\* the paragraphs of the longest note content
MaxContent == 3
MaxToolCalls == 4

VARIABLES
    now,                \* time.time()
    max_requests,       \* RateLimiter.max_requests
    time_window,        \* RateLimiter.time_window
    requests,           \* RateLimiter.requests
    ret,                \* result of the last can_make_request call
    admitted,           \* history: timestamps of every admitted call
    retries,            \* retry_with_backoff(retries=...)
    backoff_in_seconds, \* retry_with_backoff(backoff_in_seconds=...)
    pc,                 \* position of the caller inside wrapper
    x,                  \* wrapper's retry counter
    note,               \* argument of the wrapped operation
    trace,              \* history of the current wrapper call
    waited,             \* 1-second sleeps of the current wait_for_next_slot
    raisedError,        \* exception the wrapper raised to its caller
    rq,                 \* state of one SliteAPI._make_request call
    cch,                \* one utils.Cache instance and its cache file
    reg,                \* NoteManager: registries, registry file, cache
    remote,             \* the remote service as NoteManager's api sees it
    last,               \* outcome of the last finished NoteManager operation
    thr,                \* the threads inside RateLimiter.can_make_request
    tl,                 \* one SliteTools instance, its api and the remote notes
    view                \* what the last read-only NoteManager operation returned

limiterVars == <<max_requests, time_window, requests, ret, admitted>>
retryVars == <<retries, backoff_in_seconds, pc, x, note, trace, waited, raisedError>>
vars == <<now, max_requests, time_window, requests, ret, admitted,
          retries, backoff_in_seconds, pc, x, note, trace, waited,
          raisedError, rq, cch, reg, remote, last, thr, tl, view>>
storeVars == <<cch, reg, remote, last, thr, tl, view>>

\* ---- pure helpers -------------------------------------------------------
RECURSIVE Pow2(_)
Pow2(n) == IF n <= 0 THEN 1 ELSE 2 * Pow2(n - 1)

RECURSIVE SelectInWindow(_, _, _)
InWindowOffByOne(current_time, req_time, window) == current_time - req_time <= window

\* utils.py:80  the filter of the purge: current_time - req_time < time_window
InWindow(current_time, req_time, window) == current_time - req_time < window

\* utils.py:79-80  the list comprehension that drops old requests
SelectInWindow(reqs, current_time, window) ==
    IF reqs = <<>> THEN <<>>
    ELSE LET rest == SelectInWindow(Tail(reqs), current_time, window)
         IN  IF InWindow(current_time, Head(reqs), window)
             THEN <<Head(reqs)>> \o rest
             ELSE rest

HasRoomOffByOne(reqs, maxreq) == Len(reqs) <= maxreq

\* utils.py:82  len(self.requests) < self.max_requests
HasRoom(reqs, maxreq) == Len(reqs) < maxreq

\* utils.py:70-85  RateLimiter.can_make_request as a function of the state
can_make_request(reqs, current_time, maxreq, window) ==
    LET kept == SelectInWindow(reqs, current_time, window)
    IN  IF HasRoom(kept, maxreq)
        THEN [requests |-> Append(kept, current_time), ok |-> TRUE]
        ELSE [requests |-> kept, ok |-> FALSE]

\* models.py / note_manager.py:75-80  the notes a caller may pass
Notes == [title : {"", "Standup"}, content : {"", "text"}]

\* note_manager.py:75-80  NoteManager._validate_note
validate_note(n) ==
    IF n.title = "" THEN "ValidationError"
    ELSE IF n.content = "" THEN "ValidationError"
    ELSE "ok"

\* note_manager.py:85-113  outcomes of the wrapped create_note: validation
\* first, then the remote call, which succeeds or raises
FuncOutcomes(n) ==
    IF validate_note(n) # "ok" THEN {validate_note(n)}
    ELSE {"ok", "Exception"}

ExhaustedOffByOne(xx, r) == xx = r + 1

ExhaustedEarly(xx, r) == xx + 1 >= r

\* utils.py:115  if x == retries
Exhausted(xx, r) == xx = r

BackoffLinear(b, xx) == b * (xx + 1)

\* utils.py:119  backoff_in_seconds * 2 ** x  (the delay without jitter)
BackoffDelay(b, xx) == b * Pow2(xx)

\* utils.py:120  random.uniform(0, 1), in whole seconds
Jitter == {0, 1}

AttemptEntryFirstOnly(xx) == IF xx = 0 THEN "wait" ELSE "call"

\* utils.py:110-112  every pass of the while loop starts in wait_for_next_slot
AttemptEntry(xx) == "wait"

\* ---- SliteAPI._make_request: pure helpers --------------------------------
\* slite_api.py:171  max_tries=3
max_tries == 3

\* slite_api.py:172  max_time=10
max_time == 10

\* slite_api.py:173  the HTTP methods the client uses
Methods == {"GET", "POST", "DELETE"}

\* slite_api.py:181  what one HTTP exchange can produce: a response with a
\* status and a body that is JSON or not, or a transport-level failure
Responses ==
    [kind : {"status"}, status : {200, 204}, json : BOOLEAN]
    \cup [kind : {"status"}, status : {400, 401, 403, 404, 429, 500, 503},
          json : {FALSE}]
    \cup [kind : {"ClientError", "TimeoutError"}, status : {0}, json : {FALSE}]

Raise(cls, msg) == [kind |-> "raise", cls |-> cls, msg |-> msg]
Return(val) == [kind |-> "return", cls |-> "none", msg |-> val]

\* slite_api.py:175-176  no session: raise Exception("Session not initialized")
NoSession == Raise("Exception", "Session not initialized")

\* slite_api.py:180-215  the classification of one exchange
Classify(method, resp) ==
    IF resp.kind # "status" THEN Raise(resp.kind, "transport")
    ELSE IF resp.status = 404 THEN Raise("Exception", "Resource not found")
    ELSE IF resp.status = 429 THEN Raise("Exception", "Rate limit exceeded")
    ELSE IF resp.status = 503 THEN Raise("Exception", "Service temporarily unavailable")
    ELSE IF resp.status >= 400 THEN Raise("Exception", "Request failed")
    ELSE IF method = "DELETE" /\ resp.status = 204 THEN Return("empty")
    ELSE IF resp.json THEN Return("json")
    ELSE Raise("ContentTypeError", "transport")

MaxTriesExceededOffByOne(tries) == tries = max_tries + 1

\* slite_api.py:171  backoff gives up when tries == max_tries
MaxTriesExceeded(tries) == tries = max_tries

\* slite_api.py:172  backoff gives up when elapsed >= max_time
MaxTimeExceeded(elapsed) == elapsed >= max_time

\* slite_api.py:169-172  on_exception retries every Exception until a limit
GiveUp(err, tries, elapsed) == MaxTriesExceeded(tries) \/ MaxTimeExceeded(elapsed)

Min(a, b) == IF a < b THEN a ELSE b

\* slite_api.py:169  backoff.expo with full jitter, capped by the time left
WaitChoices(tries, elapsed) == 0..Min(Pow2(tries - 1), max_time - elapsed)


Event(ev, out, d) == [ev |-> ev, out |-> out, d |-> d]

\* ---- utils.Cache: data ---------------------------------------------------
CacheKeys == {"k1", "k2"}
CacheValues == {"v1", "v2"}

\* a dict as a function on the set of its keys
EmptyDict == <<>>
Put(d, k, v) == [i \in DOMAIN d \cup {k} |-> IF i = k THEN v ELSE d[i]]
Del(d, k) == [i \in DOMAIN d \ {k} |-> d[i]]

NoGet == [key |-> "none", hit |-> FALSE, value |-> "None", at |-> 0]

\* utils.py:134-142  Cache.__init__ on a missing cache file
CacheInit ==
    [store |-> EmptyDict, file |-> EmptyDict, setAt |-> EmptyDict,
     ttl |-> EmptyDict, got |-> NoGet]

\* utils.py:162-172  Cache.get: return self._cache.get(key)
CacheGetResult(store, setAt, ttl, key, t) ==
    IF key \in DOMAIN store
    THEN [hit |-> TRUE, value |-> store[key], store |-> store]
    ELSE [hit |-> FALSE, value |-> "None", store |-> store]

\* ---- NoteManager: data ---------------------------------------------------
Ids == 1..MaxIds
NoId == 0

\* note_manager.py:10-15  NoteManager.__init__ on a missing registry file
EmptyDoc == [kind |-> "doc", notes |-> EmptyDict, folders |-> EmptyDict,
             hierarchy |-> EmptyDict, extra |-> EmptyDict]
RegInit ==
    [notes |-> EmptyDict, nfolders |-> EmptyDict, hierarchy |-> EmptyDict,
     extra |-> EmptyDict, folders |-> EmptyDict, file |-> EmptyDoc,
     cache |-> EmptyDict]
RemoteInit == [nextId |-> 1, log |-> <<>>, faults |-> 0]
LastNone == [op |-> "none", id |-> NoId, result |-> "none", remote |-> "none",
             save |-> "none"]
\* what the caller and the properties see of the last operation; one that
\* ended at an early return, before any remote call, is recorded as rejected
Last(op, o, result) ==
    IF o.remote = "notcalled"
    THEN [op |-> "rejected", id |-> NoId, result |-> result, remote |-> o.remote,
          save |-> o.save]
    ELSE [op |-> op, id |-> o.id, result |-> result, remote |-> o.remote,
          save |-> o.save]

\* ---- text ----------------------------------------------------------------
\* a str is the sequence of its characters
Letters == {"p", "P", "l"}

LowerCharIdentity(c) == c

\* str.lower() on one character
LowerChar(c) == IF c = "P" THEN "p" ELSE c

\* str.lower()
lower(s) == [i \in 1..Len(s) |-> LowerChar(s[i])]

\* a in b for two str: some slice of b equals a
In(a, b) ==
    \E i \in 0..(Len(b) - Len(a)) : \A k \in 1..Len(a) : b[i + k] = a[k]

\* every str of at most n characters
RECURSIVE Words(_)
Words(n) ==
    IF n = 0 THEN {<<>>}
    ELSE LET shorter == Words(n - 1)
         IN  shorter \cup {Append(w, c) : w \in shorter, c \in Letters}

\* ---- RateLimiter under threads: data --------------------------------------
Threads == {1, 2}

\* a thread outside can_make_request
ThreadIdle == [pc |-> "idle", current_time |-> 0, kept |-> <<>>]
ThrIdle == [t \in Threads |-> ThreadIdle]

\* ---- NoteManager reads: data ----------------------------------------------
NoView == [op |-> "none", arg |-> <<>>, result |-> <<>>, none |-> TRUE]

\* an Optional[str]
None == [none |-> TRUE, text |-> <<>>]
Some(t) == [none |-> FALSE, text |-> t]

\* bool(v) for an Optional[str]
Truthy(v) == ~v.none /\ v.text # <<>>

\* the ids the remote service gave to two notes and, after them, to a folder
ReadNoteIds == {1, 2}
FolderId == 3
ReadIds == ReadNoteIds \cup {FolderId}

\* ---- SliteTools: data -----------------------------------------------------
\* langchain_integration.py:100, 117  the note_id argument of a tool: None, an
\* id (a str that starts with 'n_') or any other str, taken as a title
NoInput == [kind |-> "none", id |-> NoId, text |-> <<>>]
IdInput(id) == [kind |-> "id", id |-> id, text |-> <<>>]
TitleInput(t) == [kind |-> "title", id |-> NoId, text |-> t]

\* what a tool gave back to its caller. kind: a JSON object ("json"), any
\* other str ("text"), a note id ("id"), or an exception ("raised"); status and
\* message: the fields of the JSON object; input, append: the arguments; hits:
\* what the search inside the tool found; returned: the id carried by the
\* remote answer; read: whether the existing content was obtained
Res(op, kind, status, message) ==
    [op |-> op, kind |-> kind, status |-> status, message |-> message,
     input |-> NoInput, hits |-> <<>>, returned |-> NoId, append |-> FALSE,
     read |-> FALSE]
NoResult == Res("none", "none", "none", FALSE)

\* langchain_integration.py:26-29  SliteTools.__init__, with a remote service
\* that holds no note yet
ToolsInit ==
    [last_note_id |-> NoId, last_folder_id |-> NoId, notes |-> EmptyDict,
     nextId |-> 1, res |-> NoResult, calls |-> <<>>, done |-> 0]

StoreIdle ==
    /\ cch = CacheInit
    /\ reg = RegInit
    /\ remote = RemoteInit
    /\ last = LastNone
    /\ thr = ThrIdle
    /\ tl = ToolsInit
    /\ view = NoView

\* the limiter and the retry wrapper at rest
RetryIdle ==
    /\ max_requests = 1
    /\ time_window = 1
    /\ requests = <<>>
    /\ ret = FALSE
    /\ admitted = <<>>
    /\ retries = 0
    /\ backoff_in_seconds = 0
    /\ pc = "unused"
    /\ x = 0
    /\ note = [title |-> "", content |-> ""]
    /\ trace = <<>>
    /\ waited = 0
    /\ raisedError = "none"

\* ---- NoteManager: operations as functions of the registry ----------------
\* models.py:12-27  the notes a caller passes; attrs tells whether the object
\* has the project, department and parent_id attributes that note_manager.py
\* reads (models.MeetingNote declares none of them)
NoteInputs ==
    [title : {"", "Standup"}, content : {"text"}, attrs : BOOLEAN]

\* models.py:39-50  FolderStructure(name, description, parent_id)
FolderInputs == [name : {"Meetings"}, parent_id : {NoId} \cup Ids]

\* note_manager.py:60-61, 69-70  open(file, 'w') and json.dump: the write
\* succeeds, or fails before the file is opened
SaveOutcomes == {"ok", "unchanged"}

CorruptDoc == [kind |-> "corrupt", notes |-> EmptyDict, folders |-> EmptyDict,
               hierarchy |-> EmptyDict, extra |-> EmptyDict]

WriteFile(file, content, sv) ==
    IF sv = "ok" THEN content
    ELSE IF sv = "unchanged" THEN file
    ELSE CorruptDoc

\* note_manager.py:57-64  _save_registry: dump self.notes_registry
SaveRegistry(r, sv) ==
    [r EXCEPT !.file = WriteFile(r.file,
        [kind |-> "doc", notes |-> r.notes, folders |-> r.nfolders,
         hierarchy |-> r.hierarchy, extra |-> r.extra], sv)]

\* note_manager.py:66-73  _save_folders_registry: dump self.folders_registry,
\* the bare id -> folder mapping, over the same file
SaveFoldersRegistry(r, sv) ==
    [r EXCEPT !.file = WriteFile(r.file,
        [kind |-> "map", notes |-> EmptyDict, folders |-> EmptyDict,
         hierarchy |-> EmptyDict, extra |-> r.folders], sv)]

\* note_manager.py:17-55  _load_registry and _load_folders_registry: two
\* separate json.load of the file; missing keys are added empty, a file that
\* does not parse gives the empty registry. The top-level keys that a file
\* holding the bare folder mapping leaves beside the three mappings are not
\* followed any further.
LoadRegistry(file, cache) ==
    IF file.kind = "corrupt" THEN [RegInit EXCEPT !.file = file, !.cache = cache]
    ELSE [notes |-> file.notes, nfolders |-> file.folders,
          hierarchy |-> file.hierarchy, extra |-> EmptyDict,
          folders |-> file.folders, file |-> file, cache |-> cache]

\* utils.py:174-183  Cache.set as used by NoteManager: None, or the dict of a
\* note, of which the title and the content are kept
NoneValue == [none |-> TRUE, title |-> "", content |-> ""]
NoteValue(title, content, folder_id) ==
    [none |-> FALSE, title |-> title, content |-> content]

Out(r, calls, res, id, rem, save) ==
    [reg |-> r, calls |-> calls, res |-> res, id |-> id, remote |-> rem, save |-> save]

\* one call of self.api: the method, the id it concerns and whether it succeeded
RemoteCall(op, id, ok) == [op |-> op, id |-> id, ok |-> ok]

\* note_manager.py:85-113  one pass of create_note's body
CreateNoteAttempt(r, newId, n, parent, ro, sv, cv) ==
    IF validate_note(n) # "ok"
    THEN Out(r, <<>>, "ValidationError", NoId, "notcalled", "notcalled")
    ELSE IF ro # "ok"
    THEN Out(r, <<RemoteCall("create_note", NoId, FALSE)>>, "Exception", NoId,
             "failed", "notcalled")
    ELSE IF ~n.attrs
    THEN Out(r, <<RemoteCall("create_note", newId, TRUE)>>, "AttributeError", newId,
             "ok", "notcalled")
    ELSE
        LET r1 == [r EXCEPT !.notes = Put(@, newId,
                        [title |-> n.title, parent_id |-> parent,
                         project |-> "none", department |-> "none"])]
            r2 == SaveRegistry(r1, sv)
            r3 == [r2 EXCEPT !.cache = Put(@, newId, NoteValue(n.title, n.content, parent))]
        IN  IF sv # "ok"
            THEN Out(r2, <<RemoteCall("create_note", newId, TRUE)>>, "OSError", newId,
                     "ok", "failed")
            ELSE IF cv # "ok"
            THEN Out(r3, <<RemoteCall("create_note", newId, TRUE)>>, "OSError", newId,
                     "ok", "ok")
            ELSE Out(r3, <<RemoteCall("create_note", newId, TRUE)>>, "ok", newId, "ok", "ok")

\* note_manager.py:116-145  update_note: every exception becomes False
UpdateNoteOp(r, id, n, ro, sv, cv) ==
    IF validate_note(n) # "ok" \/ id \notin DOMAIN r.notes
    THEN Out(r, <<>>, "false", id, "notcalled", "notcalled")
    ELSE IF ro # "ok"
    THEN Out(r, <<RemoteCall("update_note", id, FALSE)>>, "false", id, "failed",
             "notcalled")
    ELSE IF ~n.attrs
    THEN Out(r, <<RemoteCall("update_note", id, TRUE)>>, "false", id, "ok", "notcalled")
    ELSE
        LET r1 == [r EXCEPT !.notes[id].title = n.title,
                            !.notes[id].parent_id = NoId]
            r2 == SaveRegistry(r1, sv)
            r3 == [r2 EXCEPT !.cache = Put(@, id, NoteValue(n.title, n.content, NoId))]
        IN  IF sv # "ok"
            THEN Out(r2, <<RemoteCall("update_note", id, TRUE)>>, "false", id, "ok", "failed")
            ELSE IF cv # "ok"
            THEN Out(r3, <<RemoteCall("update_note", id, TRUE)>>, "false", id, "ok", "ok")
            ELSE Out(r3, <<RemoteCall("update_note", id, TRUE)>>, "true", id, "ok", "ok")

\* the ways a remote delete ends: truthy, falsy, an exception, or the
\* exception by which the service tells that the item does not exist
DeleteOutcomes == {"true", "false", "raise", "absent"}

\* what the caller can know of a remote delete that did not answer truthy
Unanswered(ro) == IF ro = "absent" THEN "absent" ELSE "failed"

\* a delete_note that drops the local entry whatever the remote call answers
DeleteNoteOpOptimistic(r, id, ro, sv, cv) ==
    IF id \notin DOMAIN r.notes
    THEN Out(r, <<>>, "false", id, "notcalled", "notcalled")
    ELSE
        LET r1 == [r EXCEPT !.notes = Del(@, id)]
            r2 == SaveRegistry(r1, sv)
            r3 == [r2 EXCEPT !.cache = Put(@, id, NoneValue)]
            done == RemoteCall("delete_note", id, ro = "true")
        IN  IF ro # "true" THEN Out(r3, <<done>>, "false", id, Unanswered(ro), "notcalled")
            ELSE IF sv # "ok" THEN Out(r2, <<done>>, "false", id, "ok", "failed")
            ELSE IF cv # "ok" THEN Out(r3, <<done>>, "false", id, "ok", "ok")
            ELSE Out(r3, <<done>>, "true", id, "ok", "ok")

\* note_manager.py:148-167  delete_note: every exception becomes False
DeleteNoteOp(r, id, ro, sv, cv) ==
    IF id \notin DOMAIN r.notes
    THEN Out(r, <<>>, "false", id, "notcalled", "notcalled")
    ELSE IF ro # "true"
    THEN Out(r, <<RemoteCall("delete_note", id, FALSE)>>, "false", id, Unanswered(ro),
             "notcalled")
    ELSE
        LET r1 == [r EXCEPT !.notes = Del(@, id)]
            r2 == SaveRegistry(r1, sv)
            r3 == [r2 EXCEPT !.cache = Put(@, id, NoneValue)]
        IN  IF sv # "ok"
            THEN Out(r2, <<RemoteCall("delete_note", id, TRUE)>>, "false", id, "ok", "failed")
            ELSE IF cv # "ok"
            THEN Out(r3, <<RemoteCall("delete_note", id, TRUE)>>, "false", id, "ok", "ok")
            ELSE Out(r3, <<RemoteCall("delete_note", id, TRUE)>>, "true", id, "ok", "ok")

\* note_manager.py:206-209  the child is appended to its parent's list
AppendChild(h, parent, child) ==
    IF parent = NoId THEN h
    ELSE IF parent \in DOMAIN h THEN Put(h, parent, Append(h[parent], child))
    ELSE Put(h, parent, <<child>>)

\* note_manager.py:190-216  one pass of create_folder's body
CreateFolderAttempt(r, newId, f, ro, sv1, sv2) ==
    IF ro # "ok"
    THEN Out(r, <<RemoteCall("create_folder", NoId, FALSE)>>, "Exception", NoId,
             "failed", "notcalled")
    ELSE
        LET r1 == [r EXCEPT !.folders = Put(@, newId,
                        [name |-> f.name, parent_id |-> f.parent_id])]
            r2 == SaveFoldersRegistry(r1, sv1)
            r3 == [r2 EXCEPT !.hierarchy = AppendChild(@, f.parent_id, newId)]
            r4 == SaveRegistry(r3, sv2)
        IN  IF sv1 # "ok"
            THEN Out(r2, <<RemoteCall("create_folder", newId, TRUE)>>, "OSError", newId,
                     "ok", "failed")
            ELSE IF sv2 # "ok"
            THEN Out(r4, <<RemoteCall("create_folder", newId, TRUE)>>, "OSError", newId,
                     "ok", "failed")
            ELSE Out(r4, <<RemoteCall("create_folder", newId, TRUE)>>, "ok", newId, "ok", "ok")

\* note_manager.py:218-235  update_folder
UpdateFolderOp(r, id, f, ro, sv) ==
    IF id \notin DOMAIN r.folders
    THEN Out(r, <<>>, "false", id, "notcalled", "notcalled")
    ELSE IF ro # "ok"
    THEN Out(r, <<RemoteCall("update_folder", id, FALSE)>>,
             IF ro = "raise" THEN "false" ELSE "none", id, "failed", "notcalled")
    ELSE
        LET r1 == [r EXCEPT !.folders[id].name = f.name]
            r2 == SaveFoldersRegistry(r1, sv)
        IN  IF sv # "ok"
            THEN Out(r2, <<RemoteCall("update_folder", id, TRUE)>>, "false", id, "ok", "failed")
            ELSE Out(r2, <<RemoteCall("update_folder", id, TRUE)>>, "true", id, "ok", "ok")

\* list.remove(x): the list without the first occurrence of x
RECURSIVE RemoveFirst(_, _)
RemoveFirst(seq, v) ==
    IF seq = <<>> THEN <<>>
    ELSE IF Head(seq) = v THEN Tail(seq)
    ELSE <<Head(seq)>> \o RemoveFirst(Tail(seq), v)

InSeq(seq, v) == \E i \in 1..Len(seq) : seq[i] = v

Children(r, id) == IF id \in DOMAIN r.hierarchy THEN r.hierarchy[id] ELSE <<>>

\* note_manager.py:319-334  get_folder_path: the while loop, run for at most
\* fuel iterations; ended tells whether the loop condition became false
RECURSIVE get_folder_path(_, _, _, _)
get_folder_path(folders, current_id, path, fuel) ==
    IF ~(current_id # NoId /\ current_id \in DOMAIN folders)
    THEN [path |-> path, ended |-> TRUE]
    ELSE IF fuel = 0 THEN [path |-> path, ended |-> FALSE]
    ELSE get_folder_path(folders, folders[current_id].parent_id,
                         <<current_id>> \o path, fuel - 1)

RECURSIVE DeleteFolderOp(_, _, _, _, _, _)
RECURSIVE DeleteNotesLoop(_, _, _, _, _)
RECURSIVE DeleteSubfoldersLoop(_, _, _, _, _, _)

\* note_manager.py:245-247  for note_id in hierarchy[folder_id][:]:
\* self.delete_note(note_id)
DeleteNotesLoop(r, calls, ids, dout, sv) ==
    IF ids = <<>> THEN [reg |-> r, calls |-> calls]
    ELSE LET o == DeleteNoteOp(r, Head(ids), dout[Head(ids)], sv, "ok")
         IN  DeleteNotesLoop(o.reg, calls \o o.calls, Tail(ids), dout, sv)

\* note_manager.py:250-252  for subfolder_id in hierarchy[folder_id][:]:
\* self.delete_folder(subfolder_id)
DeleteSubfoldersLoop(r, calls, ids, dout, sv, depth) ==
    IF ids = <<>> THEN [reg |-> r, calls |-> calls]
    ELSE LET o == DeleteFolderOp(r, calls, Head(ids), dout, sv, depth + 1)
         IN  DeleteSubfoldersLoop(o.reg, o.calls, Tail(ids), dout, sv, depth)

\* note_manager.py:254-268  the folder's own remote delete and the clean-up
DeleteFolderItself(r, calls, id, dout, sv) ==
    IF dout[id] # "true"
    THEN Out(r, Append(calls, RemoteCall("delete_folder", id, FALSE)),
             IF dout[id] = "false" THEN "none" ELSE "false", id, Unanswered(dout[id]),
             "notcalled")
    ELSE
        LET issued == Append(calls, RemoteCall("delete_folder", id, TRUE))
        IN  IF id \notin DOMAIN r.folders
            THEN Out(r, issued, "false", id, "ok", "notcalled")
            ELSE
                LET parent == r.folders[id].parent_id
                    linked == parent # NoId /\ parent \in DOMAIN r.hierarchy
                IN  IF linked /\ ~InSeq(r.hierarchy[parent], id)
                    THEN Out(r, issued, "false", id, "ok", "notcalled")
                    ELSE
                        LET h1 == IF linked
                                  THEN Put(r.hierarchy, parent,
                                           RemoveFirst(r.hierarchy[parent], id))
                                  ELSE r.hierarchy
                            r1 == [r EXCEPT !.folders = Del(@, id),
                                            !.hierarchy = Del(h1, id)]
                            r2 == SaveFoldersRegistry(r1, sv)
                            r3 == SaveRegistry(r2, sv)
                        IN  IF sv # "ok"
                            THEN Out(r2, issued, "false", id, "ok", "failed")
                            ELSE Out(r3, issued, "true", id, "ok", "ok")

\* note_manager.py:237-271  delete_folder; a call nested deeper than the
\* interpreter allows ends in RecursionError, which the except clause turns
\* into False
DeleteFolderOp(r, calls, id, dout, sv, depth) ==
    IF depth > RecursionLimit \/ id \notin DOMAIN r.folders
    THEN Out(r, calls, "false", id, "notcalled", "notcalled")
    ELSE
        LET a == DeleteNotesLoop(r, calls, Children(r, id), dout, sv)
            b == DeleteSubfoldersLoop(a.reg, a.calls, Children(a.reg, id), dout,
                                      sv, depth)
        IN  DeleteFolderItself(b.reg, b.calls, id, dout, sv)

\* ---- NoteManager: read-only operations -----------------------------------
\* list(d.values()) of a dict whose keys were inserted in the order of the ids
RECURSIVE Values(_)
Values(d) ==
    IF DOMAIN d = {} THEN <<>>
    ELSE LET k == CHOOSE i \in DOMAIN d : \A j \in DOMAIN d : i <= j
         IN  <<d[k]>> \o Values(Del(d, k))

\* note_manager.py:367-369  the test search_notes applies to one note_info,
\* with the query already in lower case
search_matches(note_info, query) ==
    \/ In(query, lower(note_info.title))
    \/ (Truthy(note_info.project) /\ In(query, lower(note_info.project.text)))
    \/ (Truthy(note_info.department) /\ In(query, lower(note_info.department.text)))

\* note_manager.py:360-374  search_notes
search_notes(notes, query) ==
    LET q == lower(query)
    IN  SelectSeq(Values(notes), LAMBDA note_info : search_matches(note_info, q))

\* note_manager.py:351-358  list_all_notes
list_all_notes(notes) == Values(notes)

Returned(r, result) == [reg |-> r, result |-> result, none |-> FALSE]
ReturnedNone(r) == [reg |-> r, result |-> <<>>, none |-> TRUE]

\* note_manager.py:169-185  get_note: the cache first, then the remote
\* service, whose answer is cached
get_note(r, note_id, ro, cv) ==
    IF note_id \in DOMAIN r.cache /\ ~r.cache[note_id].none
    THEN Returned(r, <<r.cache[note_id]>>)
    ELSE IF ro = "raise" THEN ReturnedNone(r)
    ELSE IF ro = "none" THEN ReturnedNone(r)
    ELSE LET n == NoteValue(<<"P">>, "text", NoId)
             r1 == [r EXCEPT !.cache = Put(@, note_id, n)]
         IN  IF cv # "ok" THEN ReturnedNone(r1) ELSE Returned(r1, <<n>>)

\* note_manager.py:273-297  get_folder: the folder's registry entry is
\* updated from the remote answer and the folder registry is saved
get_folder(r, folder_id, ro, sv) ==
    IF folder_id \notin DOMAIN r.folders THEN ReturnedNone(r)
    ELSE IF ro = "raise" THEN ReturnedNone(r)
    ELSE IF ro = "none" THEN ReturnedNone(r)
    ELSE LET r1 == [r EXCEPT !.folders[folder_id].name = "Renamed"]
             r2 == SaveFoldersRegistry(r1, sv)
         IN  IF sv # "ok" THEN ReturnedNone(r2)
             ELSE Returned(r2, <<r2.folders[folder_id]>>)

\* note_manager.py:299-317  list_subfolders
list_subfolders(r, parent_id) ==
    IF parent_id = NoId
    THEN Returned(r, SelectSeq(Values(r.folders), LAMBDA f : f.parent_id = NoId))
    ELSE IF parent_id \in DOMAIN r.hierarchy
    THEN Returned(r, [i \in 1..Len(SelectSeq(r.hierarchy[parent_id],
                                             LAMBDA c : c \in DOMAIN r.folders)) |->
                        r.folders[SelectSeq(r.hierarchy[parent_id],
                                            LAMBDA c : c \in DOMAIN r.folders)[i]]])
    ELSE ReturnedNone(r)

\* note_manager.py:336-349  list_folder_notes: the keys of the folder's record
\* in notes_registry["folders"] are looked up as note ids, and none is one
list_folder_notes(r, folder_id) ==
    IF folder_id \in DOMAIN r.nfolders THEN Returned(r, <<>>) ELSE ReturnedNone(r)

\* ---- SliteAPI as SliteTools uses it ----------------------------------------
ToolIds == 1..MaxNotes
ToolFolderId == 1
Titles == {<<"P">>, <<"p", "l">>}

\* the str of an id: it starts with 'n_'
IdText(id) == <<"n", "_", ToString(id)>>

\* the content a tool creates a note with, and the content it updates with
CreatedContent == <<"a">>
UpdateContent == <<"b">>

\* one request sent by _make_request and whether it was answered without an
\* exception
Req(m, id, ok, body) == [m |-> m, id |-> id, ok |-> ok, body |-> body]

\* slite_api.py:492-517  what search_notes_async gives: an exception, or the
\* hits, a list of at most two of the notes the service holds
Hit(notes, id) == [id |-> id, title |-> notes[id].title]
SearchOutcomes(notes) ==
    {[raise |-> TRUE, hits |-> <<>>], [raise |-> FALSE, hits |-> <<>>]}
        \cup {[raise |-> FALSE, hits |-> <<Hit(notes, i)>>] : i \in DOMAIN notes}
        \cup {[raise |-> FALSE, hits |-> <<Hit(notes, p[1]), Hit(notes, p[2])>>] :
                p \in {q \in (DOMAIN notes) \X (DOMAIN notes) : q[1] # q[2]}}
SearchReq(search) == Req("SEARCH", NoId, ~search.raise, <<>>)

\* slite_api.py:533-539  what GET /v1/notes/{id} gives: an exception, a falsy
\* body, or a note whose content is a str, a dict, or missing
GetOutcomes(notes, id) ==
    IF id \in DOMAIN notes THEN {"raise", "str", "dict", "missing"}
    ELSE {"raise", "falsy"}

\* what PUT and DELETE /v1/notes/{id} give
PutOutcomes(notes, id) == IF id \in DOMAIN notes THEN {"raise", "falsy", "ok"} ELSE {"raise"}
DelOutcomes(notes, id) == IF id \in DOMAIN notes THEN {"raise", "ok"} ELSE {"raise"}

\* what POST /v1/notes gives: an exception, a note object with its id, an
\* object without id, or an empty or non-object body
PostOutcomes == {"raise", "note", "noid", "empty"}

\* langchain_integration.py:124-135  the note a title stands for: the first
\* hit whose title equals it in lower case, else the first hit
ExactHits(hits, text) == {i \in 1..Len(hits) : lower(hits[i].title) = lower(text)}
MatchOrFirstHit(hits, text) ==
    IF ExactHits(hits, text) # {}
    THEN hits[CHOOSE i \in ExactHits(hits, text) :
                \A j \in ExactHits(hits, text) : i <= j].id
    ELSE IF hits # <<>> THEN hits[1].id
    ELSE NoId

\* langchain_integration.py:242-245  the first hit whose title equals the
\* text in lower case, else nothing
MatchOnly(hits, text) ==
    IF ExactHits(hits, text) # {}
    THEN hits[CHOOSE i \in ExactHits(hits, text) :
                \A j \in ExactHits(hits, text) : i <= j].id
    ELSE NoId

\* a tool is done: the SliteTools and the remote notes after it, its result
\* and the requests it sent
Done(t, res, calls) == [t EXCEPT !.res = res, !.calls = calls]

\* json.dumps({"status": ..., "message": ...}) and the other returns
Json(op, status, message) == Res(op, "json", status, message)
Text(op) == Res(op, "text", "none", FALSE)

\* slite_api.py:519-531  create_note_async and what the service holds after it
create_note_async(t, title, post) ==
    IF post = "raise" THEN t
    ELSE [t EXCEPT !.notes = Put(@, t.nextId, [title |-> title,
                                               content |-> CreatedContent]),
                   !.nextId = @ + 1]

\* langchain_integration.py:45-46, 210-211  if result and isinstance(result,
\* dict): self._last_note_id = result.get('id')
RememberNote(t, post, id) ==
    IF post = "note" THEN [t EXCEPT !.last_note_id = id]
    ELSE IF post = "noid" THEN [t EXCEPT !.last_note_id = NoId]
    ELSE t

\* langchain_integration.py:41-50  SliteTools.create_note
create_note(t, title, post) ==
    IF post = "raise"
    THEN Done(t, Text("create_note"), <<Req("POST", NoId, FALSE, <<>>)>>)
    ELSE Done(RememberNote(create_note_async(t, title, post), post, t.nextId),
              [Json("create_note", "success", FALSE) EXCEPT
                    !.returned = IF post = "note" THEN t.nextId ELSE NoId],
              <<Req("POST", t.nextId, TRUE, <<>>)>>)

\* langchain_integration.py:52-61  SliteTools.search_notes
tool_search_notes(t, search) ==
    IF search.raise THEN Done(t, Text("search_notes"), <<SearchReq(search)>>)
    ELSE Done(IF search.hits # <<>>
              THEN [t EXCEPT !.last_note_id = search.hits[1].id] ELSE t,
              [Json("search_notes", "success", FALSE) EXCEPT
                    !.hits = search.hits,
                    !.returned = IF search.hits # <<>> THEN search.hits[1].id ELSE NoId],
              <<SearchReq(search)>>)

\* slite_api.py:548-567  the id update_note_async works on: the given id, or
\* for a title the first exact match among the hits, else the first hit
UpdateTarget(input, search) ==
    IF input.kind = "id" THEN input.id
    ELSE IF search.raise THEN NoId
    ELSE MatchOrFirstHit(search.hits, input.text)

\* slite_api.py:569-583  the markdown of the update: with append the existing
\* content, when it could be read, then a blank line, then the new content
UpdateBody(notes, id, append, get) ==
    IF append /\ get = "str" THEN notes[id].content \o <<"\n\n">> \o UpdateContent
    ELSE UpdateContent

\* slite_api.py:541-600  update_note_async; every exception becomes a dict
\* with status error
update_note_async(t, input, append, search, get, put) ==
    LET id == UpdateTarget(input, search)
        first == IF input.kind = "title" THEN <<SearchReq(search)>> ELSE <<>>
        got == IF append
               THEN <<Req("GET", id, get \notin {"raise", "falsy"}, <<>>)>> ELSE <<>>
        body == UpdateBody(t.notes, id, append, get)
        title == IF input.kind = "title" THEN input.text ELSE IdText(id)
    IN  IF id = NoId THEN [t |-> t, out |-> "error", calls |-> first, read |-> FALSE]
        ELSE IF put = "raise"
        THEN [t |-> t, out |-> "error",
              calls |-> first \o got \o <<Req("PUT", id, FALSE, body)>>,
              read |-> append /\ get = "str"]
        ELSE [t |-> [t EXCEPT !.notes[id] = [title |-> title, content |-> body]],
              out |-> IF put = "ok" THEN "success" ELSE "error",
              calls |-> first \o got \o <<Req("PUT", id, TRUE, body)>>,
              read |-> append /\ get = "str"]

\* langchain_integration.py:63-84  SliteTools.update_note
update_note(t, input, append, search, get, put) ==
    LET r == update_note_async(t, input, append, search, get, put)
    IN  Done(r.t, [Json("update_note", r.out, TRUE) EXCEPT
                        !.input = input, !.append = append, !.read = r.read,
                        !.hits = IF input.kind = "title" THEN search.hits ELSE <<>>],
             r.calls)

\* langchain_integration.py:86-98  SliteTools.summarize_note
summarize_note(t, id, get) ==
    Done(t, IF get = "str" THEN Json("summarize_note", "success", FALSE)
            ELSE Text("summarize_note"),
         <<Req("GET", id, get \notin {"raise", "falsy"}, <<>>)>>)

\* slite_api.py:602-631  delete_note_async: the note is fetched, then deleted
delete_note_async(t, id, get, del) ==
    IF get = "raise"
    THEN [t |-> t, out |-> "raise", calls |-> <<Req("GET", id, FALSE, <<>>)>>]
    ELSE IF get = "falsy"
    THEN [t |-> t, out |-> "error", calls |-> <<Req("GET", id, TRUE, <<>>)>>]
    ELSE IF del = "raise"
    THEN [t |-> t, out |-> "raise",
          calls |-> <<Req("GET", id, TRUE, <<>>), Req("DELETE", id, FALSE, <<>>)>>]
    ELSE [t |-> [t EXCEPT !.notes = Del(@, id)], out |-> "success",
          calls |-> <<Req("GET", id, TRUE, <<>>), Req("DELETE", id, TRUE, <<>>)>>]

\* langchain_integration.py:104-111  the note_id delete_note starts from
DeleteArgument(t, input) ==
    IF input.kind = "none" /\ t.last_note_id # NoId THEN IdInput(t.last_note_id)
    ELSE input

\* langchain_integration.py:117-135  the id delete_note deletes
DeleteTarget(arg, search) ==
    IF arg.kind = "id" THEN arg.id
    ELSE IF arg.kind = "none" \/ search.raise THEN NoId
    ELSE MatchOrFirstHit(search.hits, arg.text)

\* langchain_integration.py:158-159  the last note id is cleared when it is
\* the id just deleted
ForgetNote(t, id) == IF t.last_note_id = id THEN [t EXCEPT !.last_note_id = NoId] ELSE t

\* langchain_integration.py:100-175  SliteTools.delete_note
delete_note(t, input, search, get, del) ==
    LET arg == DeleteArgument(t, input)
        id == DeleteTarget(arg, search)
        first == IF arg.kind = "title" THEN <<SearchReq(search)>> ELSE <<>>
        found == IF arg.kind = "title" /\ ~search.raise THEN search.hits ELSE <<>>
        r == delete_note_async(t, id, get, del)
        res(status) == [Json("delete_note", status, TRUE) EXCEPT
                            !.input = input, !.hits = found,
                            !.returned = IF status = "success" THEN id ELSE NoId]
    IN  IF id = NoId THEN Done(t, res("error"), first)
        ELSE IF r.out = "success"
        THEN Done(ForgetNote(r.t, id), res("success"), first \o r.calls)
        ELSE Done(r.t, res("error"), first \o r.calls)

\* langchain_integration.py:177-186  SliteTools.create_folder
create_folder(t, post) ==
    IF post = "raise"
    THEN Done(t, Text("create_folder"), <<Req("POST", NoId, FALSE, <<>>)>>)
    ELSE Done([t EXCEPT !.last_folder_id = ToolFolderId],
              Json("create_folder", "success", FALSE),
              <<Req("POST", ToolFolderId, TRUE, <<>>)>>)

\* slite_api.py:633-664  what search_folder_by_name gives
FolderSearchOutcomes == {"raise", "found", "none"}

\* langchain_integration.py:188-215  SliteTools.create_note_in_folder
create_note_in_folder(t, title, named, fsearch, fpost, post) ==
    LET folder == IF named
                  THEN <<Req("SEARCH", NoId, fsearch # "raise", <<>>)>>
                        \o (IF fsearch = "none"
                            THEN <<Req("POST", ToolFolderId, fpost # "raise", <<>>)>>
                            ELSE <<>>)
                  ELSE <<>>
        made == create_note(t, title, post)
    IN  IF named /\ (fsearch = "raise" \/ (fsearch = "none" /\ fpost = "raise"))
        THEN Done(t, Text("create_note_in_folder"), folder)
        ELSE Done(made, [made.res EXCEPT !.op = "create_note_in_folder"],
                  folder \o made.calls)

\* langchain_integration.py:217-230  SliteTools.rename_folder
rename_folder(t, fsearch, put) ==
    IF fsearch = "raise"
    THEN Done(t, Text("rename_folder"), <<Req("SEARCH", NoId, FALSE, <<>>)>>)
    ELSE IF fsearch = "none"
    THEN Done(t, Json("rename_folder", "error", TRUE), <<Req("SEARCH", NoId, TRUE, <<>>)>>)
    ELSE IF put = "raise"
    THEN Done(t, Text("rename_folder"),
              <<Req("SEARCH", NoId, TRUE, <<>>), Req("PUT", ToolFolderId, FALSE, <<>>)>>)
    ELSE Done(t, Json("rename_folder", "success", FALSE),
              <<Req("SEARCH", NoId, TRUE, <<>>), Req("PUT", ToolFolderId, TRUE, <<>>)>>)

\* langchain_integration.py:232-254 with slite_api.py:404-425  SliteTools.
\* rename_note and rename_document, which sends the markdown key of the note
\* it fetched, or '' when the note has none
rename_note(t, note_title, new_title, search, get, put) ==
    LET id == IF search.raise THEN NoId ELSE MatchOnly(search.hits, note_title)
        first == <<SearchReq(search)>>
        body == IF get = "dict" THEN t.notes[id].content ELSE <<>>
        res(r) == [r EXCEPT !.input = TitleInput(note_title),
                            !.hits = IF search.raise THEN <<>> ELSE search.hits]
    IN  IF search.raise THEN Done(t, res(Text("rename_note")), first)
        ELSE IF id = NoId THEN Done(t, res(Json("rename_note", "error", TRUE)), first)
        ELSE IF get \in {"raise", "falsy"}
        THEN Done(t, res(Text("rename_note")), first \o <<Req("GET", id, FALSE, <<>>)>>)
        ELSE IF put = "raise"
        THEN Done(t, res(Text("rename_note")),
                  first \o <<Req("GET", id, TRUE, <<>>), Req("PUT", id, FALSE, body)>>)
        ELSE Done([t EXCEPT !.notes[id] = [title |-> new_title, content |-> body]],
                  res(Json("rename_note", "success", FALSE)),
                  first \o <<Req("GET", id, TRUE, <<>>), Req("PUT", id, TRUE, body)>>)

\* ---- initial states -----------------------------------------------------
RqIdle ==
    [pc |-> "idle", method |-> "GET", session |-> TRUE, tries |-> 0, start |-> 0,
     elapsed |-> 0, sent |-> 0, log |-> <<>>, err |-> Return("none"),
     result |-> Return("none")]

InitLimiter ==
    /\ now = 0
    /\ max_requests \in 1..MaxRequestsBound
    /\ time_window \in 1..MaxWindow
    /\ requests = <<>>
    /\ ret = FALSE
    /\ admitted = <<>>

InitRetry ==
    /\ retries \in 0..MaxRetries
    /\ backoff_in_seconds \in 0..MaxBackoff
    /\ pc = "idle"
    /\ x = 0
    /\ note = [title |-> "", content |-> ""]
    /\ trace = <<>>
    /\ waited = 0
    /\ raisedError = "none"

Init == InitLimiter /\ InitRetry /\ rq = RqIdle /\ StoreIdle

\* ---- RateLimiter --------------------------------------------------------
\* utils.py:70-85  one call of can_make_request by the caller
ApplyCanMakeRequest ==
    LET r == can_make_request(requests, now, max_requests, time_window)
    IN  /\ requests' = r.requests
        /\ ret' = r.ok
        /\ admitted' = IF r.ok THEN Append(admitted, now) ELSE admitted

\* utils.py:70-85  can_make_request called directly
DirectCanMakeRequest ==
    /\ pc = "idle"
    /\ Len(admitted) < MaxAdmitted
    /\ ApplyCanMakeRequest
    /\ UNCHANGED <<storeVars, now, max_requests, time_window, retryVars, rq>>

\* the clock advances between calls and while the operation runs
Tick ==
    /\ pc \in {"idle", "call"}
    /\ now < MaxTime
    /\ now' = now + 1
    /\ UNCHANGED <<storeVars, limiterVars, retryVars, rq>>

\* ---- retry_with_backoff.wrapper ----------------------------------------
\* utils.py:108-110  wrapper is entered: x = 0, while True
StartCall ==
    /\ pc = "idle"
    /\ \E n \in Notes : note' = n
    /\ x' = 0
    /\ trace' = <<>>
    /\ waited' = 0
    /\ raisedError' = "none"
    /\ pc' = AttemptEntry(0)
    /\ UNCHANGED <<storeVars, now, limiterVars, retries, backoff_in_seconds, rq>>

\* utils.py:89  while not self.can_make_request()
Poll ==
    /\ pc = "wait"
    /\ Len(admitted) < MaxAdmitted
    /\ ApplyCanMakeRequest
    /\ IF ret'
       THEN /\ pc' = "call"
            /\ trace' = Append(trace, Event("admit", "", now))
       ELSE /\ pc' = "pollsleep"
            /\ trace' = trace
    /\ UNCHANGED <<storeVars, now, max_requests, time_window, retries, backoff_in_seconds,
                   x, note, waited, raisedError, rq>>

\* utils.py:90  time.sleep(1)
PollSleep ==
    /\ pc = "pollsleep"
    /\ now + 1 <= MaxTime
    /\ now' = now + 1
    /\ waited' = waited + 1
    /\ pc' = "wait"
    /\ UNCHANGED <<storeVars, limiterVars, retries, backoff_in_seconds, x, note, trace,
                   raisedError, rq>>

\* utils.py:113-117  func(*args, **kwargs) and the except clause's decision
Invoke ==
    /\ pc = "call"
    /\ \E o \in FuncOutcomes(note) :
        /\ trace' = Append(trace, Event("invoke", o, 0))
        /\ IF o = "ok"
           THEN pc' = "returned" /\ raisedError' = "none"
           ELSE IF Exhausted(x, retries)
                THEN pc' = "raised" /\ raisedError' = o
                ELSE pc' = "backoff" /\ raisedError' = "none"
    /\ UNCHANGED <<storeVars, now, limiterVars, retries, backoff_in_seconds, x, note,
                   waited, rq>>

\* utils.py:119-124  wait = ...; time.sleep(wait); x += 1
BackoffSleep ==
    /\ pc = "backoff"
    /\ \E j \in Jitter :
        /\ now + BackoffDelay(backoff_in_seconds, x) + j <= MaxTime
        /\ now' = now + BackoffDelay(backoff_in_seconds, x) + j
    /\ trace' = Append(trace, Event("sleep", "", BackoffDelay(backoff_in_seconds, x)))
    /\ x' = x + 1
    /\ waited' = 0
    /\ pc' = AttemptEntry(x + 1)
    /\ UNCHANGED <<storeVars, limiterVars, retries, backoff_in_seconds, note, raisedError, rq>>

\* the caller has the result; the wrapper's frame is gone
Finish ==
    /\ pc \in {"returned", "raised"}
    /\ pc' = "idle"
    /\ x' = 0
    /\ note' = [title |-> "", content |-> ""]
    /\ trace' = <<>>
    /\ waited' = 0
    /\ raisedError' = "none"
    /\ UNCHANGED <<storeVars, now, limiterVars, retries, backoff_in_seconds, rq>>

Next ==
    \/ DirectCanMakeRequest
    \/ Tick
    \/ StartCall
    \/ Poll
    \/ PollSleep
    \/ Invoke
    \/ BackoffSleep
    \/ Finish

Spec == Init /\ [][Next]_vars

\* ---- SliteAPI._make_request under backoff.on_exception -------------------
InitRequest ==
    /\ now = 0
    /\ max_requests = 0
    /\ time_window = 1
    /\ requests = <<>>
    /\ ret = FALSE
    /\ admitted = <<>>
    /\ retries = 0
    /\ backoff_in_seconds = 0
    /\ pc = "unused"
    /\ x = 0
    /\ note = [title |-> "", content |-> ""]
    /\ trace = <<>>
    /\ waited = 0
    /\ raisedError = "none"
    /\ rq = RqIdle
    /\ StoreIdle

\* slite_api.py:173  a caller enters _make_request
RqStart ==
    /\ rq.pc = "idle"
    /\ \E m \in Methods, sess \in BOOLEAN :
        rq' = [RqIdle EXCEPT !.pc = "top", !.method = m, !.session = sess,
                             !.start = now]
    /\ UNCHANGED <<storeVars, now, limiterVars, retryVars>>

\* slite_api.py:169-181  one try: count it, sample the elapsed time, then
\* fail without a session or send the request
RqAttempt ==
    /\ rq.pc = "top"
    /\ IF rq.session
       THEN rq' = [rq EXCEPT !.pc = "inflight", !.tries = @ + 1,
                             !.elapsed = now - rq.start, !.sent = @ + 1]
       ELSE rq' = [rq EXCEPT !.pc = "failed", !.tries = @ + 1,
                             !.elapsed = now - rq.start, !.err = NoSession]
    /\ UNCHANGED <<storeVars, now, limiterVars, retryVars>>

\* the exchange takes time
RqTick ==
    /\ rq.pc = "inflight"
    /\ now < MaxClock
    /\ now' = now + 1
    /\ UNCHANGED <<storeVars, limiterVars, retryVars, rq>>

\* slite_api.py:181-215  the exchange ends and is classified
RqResponse ==
    /\ rq.pc = "inflight"
    /\ \E resp \in Responses :
        LET c == Classify(rq.method, resp)
        IN  IF c.kind = "return"
            THEN rq' = [rq EXCEPT !.pc = "returned", !.result = c,
                                  !.log = Append(@, resp)]
            ELSE rq' = [rq EXCEPT !.pc = "failed", !.err = c,
                                  !.log = Append(@, resp)]
    /\ UNCHANGED <<storeVars, now, limiterVars, retryVars>>

\* slite_api.py:169-172  the decorator gives up and re-raises, or backs off
RqHandle ==
    /\ rq.pc = "failed"
    /\ IF GiveUp(rq.err, rq.tries, rq.elapsed)
       THEN rq' = [rq EXCEPT !.pc = "raised", !.result = rq.err]
       ELSE rq' = [rq EXCEPT !.pc = "sleep"]
    /\ UNCHANGED <<storeVars, now, limiterVars, retryVars>>

\* slite_api.py:169  asyncio.sleep(seconds) of the decorator
RqSleep ==
    /\ rq.pc = "sleep"
    /\ \E d \in WaitChoices(rq.tries, rq.elapsed) :
        /\ now + d <= MaxClock
        /\ now' = now + d
    /\ rq' = [rq EXCEPT !.pc = "top"]
    /\ UNCHANGED <<storeVars, limiterVars, retryVars>>

\* the caller has the result and is free to call again
RqFinish ==
    /\ rq.pc \in {"returned", "raised"}
    /\ rq' = RqIdle
    /\ UNCHANGED <<storeVars, now, limiterVars, retryVars>>

NextRequest ==
    \/ RqStart
    \/ RqAttempt
    \/ RqTick
    \/ RqResponse
    \/ RqHandle
    \/ RqSleep
    \/ RqFinish

SpecRequest == InitRequest /\ [][NextRequest]_vars

\* ---- utils.Cache ---------------------------------------------------------
InitCache ==
    /\ now = 0
    /\ RetryIdle
    /\ rq = RqIdle
    /\ StoreIdle

\* utils.py:174-183  Cache.set(key, value): store and save; the lifetime t the
\* caller means the entry to have is only remembered, set takes no ttl
CacheSet ==
    /\ \E k \in CacheKeys, v \in CacheValues, t \in 1..MaxTtl :
        cch' = [cch EXCEPT !.store = Put(@, k, v),
                           !.file = Put(cch.store, k, v),
                           !.setAt = Put(@, k, now),
                           !.ttl = Put(@, k, t),
                           !.got = NoGet]
    /\ UNCHANGED <<now, limiterVars, retryVars, rq, reg, remote, last, thr, tl, view>>

\* utils.py:162-172  Cache.get(key)
CacheGet ==
    /\ \E k \in CacheKeys :
        LET r == CacheGetResult(cch.store, cch.setAt, cch.ttl, k, now)
        IN  cch' = [cch EXCEPT !.store = r.store,
                               !.got = [key |-> k, hit |-> r.hit,
                                        value |-> r.value, at |-> now]]
    /\ UNCHANGED <<now, limiterVars, retryVars, rq, reg, remote, last, thr, tl, view>>

\* utils.py:185-188  Cache.clear()
CacheClear ==
    /\ cch' = [cch EXCEPT !.store = EmptyDict, !.file = EmptyDict,
                          !.setAt = EmptyDict, !.ttl = EmptyDict, !.got = NoGet]
    /\ UNCHANGED <<now, limiterVars, retryVars, rq, reg, remote, last, thr, tl, view>>

\* utils.py:134-155  a new Cache on the same file: _load_cache
CacheReload ==
    /\ cch' = [cch EXCEPT !.store = cch.file, !.got = NoGet]
    /\ UNCHANGED <<now, limiterVars, retryVars, rq, reg, remote, last, thr, tl, view>>

\* the clock advances
CacheTick ==
    /\ now < MaxCacheTime
    /\ now' = now + 1
    /\ UNCHANGED <<limiterVars, retryVars, rq, storeVars>>

NextCache ==
    \/ CacheSet
    \/ CacheGet
    \/ CacheClear
    \/ CacheReload
    \/ CacheTick

SpecCache == InitCache /\ [][NextCache]_vars

\* C11: a get less than ttl seconds after the set of its key returns the
\* stored value; a get at or after expiry is a miss and leaves no entry for
\* the key in the cache.
C11_GetHonoursTtl ==
    (cch.got.key # "none" /\ cch.got.at = now /\ cch.got.key \in DOMAIN cch.setAt) =>
        IF now - cch.setAt[cch.got.key] < cch.ttl[cch.got.key]
        THEN cch.got.hit /\ cch.got.value = cch.store[cch.got.key]
        ELSE ~cch.got.hit /\ cch.got.key \notin DOMAIN cch.store

\* ---- NoteManager ---------------------------------------------------------
\* note_manager.py:82, 115, 147, 187  @retry_with_backoff(retries=3)
NoteRetries == 3

InitRegistry ==
    /\ now = 0
    /\ RetryIdle
    /\ rq = RqIdle
    /\ StoreIdle

registryFrame == <<now, limiterVars, retryVars, rq, cch, thr, tl, view>>

\* what the environment does to one pass of a create: the remote call raises,
\* the registry file cannot be written, the cache file cannot be written, or
\* nothing fails
AllOk == [ro |-> "ok", sv1 |-> "ok", sv2 |-> "ok", cv |-> "ok"]
CreateEnv ==
    {[AllOk EXCEPT !.ro = "raise"], [AllOk EXCEPT !.sv1 = "unchanged"],
     [AllOk EXCEPT !.sv2 = "unchanged"], [AllOk EXCEPT !.cv = "fail"], AllOk}

\* the failures the environment injected into an operation: remote calls that
\* failed, a registry file that could not be written, a cache file that could
\* not be written
FailedCalls(calls) == Cardinality({i \in 1..Len(calls) : ~calls[i].ok})
CacheFailed(o) == o.remote = "ok" /\ o.save = "ok" /\ o.res \notin {"ok", "true"}
FaultsIn(o) ==
    FailedCalls(o.calls) + (IF o.save = "failed" THEN 1 ELSE 0)
                         + (IF CacheFailed(o) THEN 1 ELSE 0)

\* the remote service names a note or folder when it creates it; the ids of
\* Ids are given, in order, to the creations that reach the local registry
Registered(r, id) == id \in DOMAIN r.notes \cup DOMAIN r.folders

Run(o, calls, nextId, faults, result) ==
    [o |-> [o EXCEPT !.calls = calls], nextId |-> nextId, faults |-> faults,
     result |-> result]

\* the environments that make a difference to one pass of create_note
NoteEnv(n, budget) ==
    IF validate_note(n) # "ok" THEN {AllOk}
    ELSE {c \in CreateEnv : /\ c.sv2 = "ok"
                            /\ (c # AllOk => budget > 0)
                            /\ (~n.attrs => c.sv1 = "ok" /\ c.cv = "ok")}

\* utils.py:108-123 around note_manager.py:82-113  create_note under the
\* wrapper: the body is run again after every exception until x == retries
RECURSIVE CreateNoteRuns(_, _, _, _, _, _, _)
CreateNoteRuns(r, nextId, calls, xx, n, parent, budget) ==
    UNION {
        LET o == CreateNoteAttempt(r, nextId, n, parent, e.ro, e.sv1, e.cv)
            nid == IF Registered(o.reg, nextId) THEN nextId + 1 ELSE nextId
            cs == calls \o o.calls
            left == budget - FaultsIn(o)
        IN  IF o.remote = "ok" /\ nextId > MaxIds THEN {}
            ELSE IF o.res = "ok" THEN {Run(o, cs, nid, left, "ok")}
            ELSE IF Exhausted(xx, NoteRetries) THEN {Run(o, cs, nid, left, "raised")}
            ELSE CreateNoteRuns(o.reg, nid, cs, xx + 1, n, parent, left)
        : e \in NoteEnv(n, budget)}

\* utils.py:108-123 around note_manager.py:187-216  create_folder under the
\* wrapper
RECURSIVE CreateFolderRuns(_, _, _, _, _, _)
CreateFolderRuns(r, nextId, calls, xx, f, budget) ==
    UNION {
        LET o == CreateFolderAttempt(r, nextId, f, e.ro, e.sv1, e.sv2)
            nid == IF Registered(o.reg, nextId) THEN nextId + 1 ELSE nextId
            cs == calls \o o.calls
            left == budget - FaultsIn(o)
        IN  IF o.remote = "ok" /\ nextId > MaxIds THEN {}
            ELSE IF o.res = "ok" THEN {Run(o, cs, nid, left, "ok")}
            ELSE IF Exhausted(xx, NoteRetries) THEN {Run(o, cs, nid, left, "raised")}
            ELSE CreateFolderRuns(o.reg, nid, cs, xx + 1, f, left)
        : e \in {c \in CreateEnv : c.cv = "ok" /\ (c # AllOk => budget > 0)}}

Created(op, run) ==
    /\ reg' = run.o.reg
    /\ remote' = [nextId |-> run.nextId, log |-> run.o.calls,
                  faults |-> MaxFaults - run.faults]
    /\ last' = Last(op, run.o, run.result)

\* one representative of the calls that end at the same early return
OneOf(S) == IF S = {} THEN {} ELSE {CHOOSE c \in S : TRUE}
Calls(all, accepted) == accepted \cup OneOf(all \ accepted)

\* note_manager.py:82-113  create_note(note, parent_id)
CreateNote ==
    /\ \E c \in Calls(NoteInputs \X ({NoId} \cup Ids),
                      {c \in NoteInputs \X ({NoId} \cup Ids) :
                          validate_note(c[1]) = "ok"}) :
        \E run \in CreateNoteRuns(reg, remote.nextId, <<>>, 0, c[1], c[2],
                                  MaxFaults - remote.faults) :
            Created("create_note", run)
    /\ UNCHANGED registryFrame

\* note_manager.py:187-216  create_folder(folder)
CreateFolder ==
    /\ \E f \in FolderInputs :
        \E run \in CreateFolderRuns(reg, remote.nextId, <<>>, 0, f,
                                    MaxFaults - remote.faults) :
            Created("create_folder", run)
    /\ UNCHANGED registryFrame

\* an operation that the wrapper never repeats: it returns instead of raising
Finished(op, o) ==
    /\ remote.faults + FaultsIn(o) <= MaxFaults
    /\ reg' = o.reg
    /\ remote' = [remote EXCEPT !.log = o.calls, !.faults = @ + FaultsIn(o)]
    /\ last' = Last(op, o, o.res)

\* the outcomes of the environment are enumerated only where the operation
\* reaches the call they belong to
Choices(reached, outcomes) == IF reached THEN outcomes ELSE {"ok"}
DeleteChoices(r) ==
    {d \in [Ids -> DeleteOutcomes] :
        /\ \A i \in Ids : ~Registered(r, i) => d[i] = "true"
        /\ Cardinality({i \in Ids : d[i] # "true"}) <= MaxFaults - remote.faults}

\* note_manager.py:115-145  update_note
UpdateNote ==
    /\ \E c \in Calls(Ids \X NoteInputs,
                      {c \in Ids \X NoteInputs :
                          c[1] \in DOMAIN reg.notes /\ validate_note(c[2]) = "ok"}) :
        LET reached == c[1] \in DOMAIN reg.notes /\ validate_note(c[2]) = "ok"
        IN  \E ro \in Choices(reached, {"ok", "raise"}) :
            \E sv \in Choices(reached /\ ro = "ok" /\ c[2].attrs, SaveOutcomes) :
            \E cv \in Choices(reached /\ ro = "ok" /\ c[2].attrs /\ sv = "ok",
                              {"ok", "fail"}) :
                Finished("update_note", UpdateNoteOp(reg, c[1], c[2], ro, sv, cv))
    /\ UNCHANGED registryFrame

\* note_manager.py:147-167  delete_note
DeleteNote ==
    /\ \E id \in Calls(Ids, DOMAIN reg.notes) :
        LET reached == id \in DOMAIN reg.notes
        IN  \E ro \in IF reached THEN DeleteOutcomes ELSE {"true"} :
            \E sv \in Choices(reached /\ ro = "true", SaveOutcomes) :
            \E cv \in Choices(reached /\ ro = "true" /\ sv = "ok", {"ok", "fail"}) :
                Finished("delete_note", DeleteNoteOp(reg, id, ro, sv, cv))
    /\ UNCHANGED registryFrame

\* note_manager.py:218-235  update_folder
UpdateFolder ==
    /\ \E id \in Calls(Ids, DOMAIN reg.folders),
          f \in {g \in FolderInputs : g.parent_id = NoId} :
        LET reached == id \in DOMAIN reg.folders
        IN  \E ro \in Choices(reached, {"ok", "other", "raise"}) :
            \E sv \in Choices(reached /\ ro = "ok", SaveOutcomes) :
                Finished("update_folder", UpdateFolderOp(reg, id, f, ro, sv))
    /\ UNCHANGED registryFrame

\* note_manager.py:237-271  delete_folder, with the outcome of the remote
\* delete of each id; of a nested delete the caller sees only that it did not
\* succeed, so one failing outcome stands for all of them there
DeleteFolder ==
    /\ \E id \in Calls(Ids, DOMAIN reg.folders) :
        LET reached == id \in DOMAIN reg.folders
        IN  \E dout \in IF reached
                        THEN {d \in DeleteChoices(reg) :
                                \A i \in Ids \ {id} : d[i] \in {"true", "raise"}}
                        ELSE {[i \in Ids |-> "true"]} :
            \E sv \in Choices(reached, SaveOutcomes) :
                /\ Cardinality({i \in Ids : dout[i] # "true"})
                       + (IF sv = "ok" THEN 0 ELSE 1) <= MaxFaults - remote.faults
                /\ Finished("delete_folder", DeleteFolderOp(reg, <<>>, id, dout, sv, 1))
    /\ UNCHANGED registryFrame

\* note_manager.py:10-15  a new NoteManager on the same registry file
Reload ==
    /\ reg' = LoadRegistry(reg.file, reg.cache)
    /\ last' = [LastNone EXCEPT !.op = "reload"]
    /\ remote' = [remote EXCEPT !.log = <<>>]
    /\ UNCHANGED registryFrame

NextRegistry ==
    \/ CreateNote
    \/ CreateFolder
    \/ UpdateNote
    \/ DeleteNote
    \/ UpdateFolder
    \/ DeleteFolder
    \/ Reload

SpecRegistry == InitRegistry /\ [][NextRegistry]_vars

\* ---- RateLimiter shared by two threads --------------------------------------
\* utils.py:93  rate_limiter = RateLimiter(), here with small limits
InitThreads ==
    /\ InitLimiter
    /\ retries = 0
    /\ backoff_in_seconds = 0
    /\ pc = "unused"
    /\ x = 0
    /\ note = [title |-> "", content |-> ""]
    /\ trace = <<>>
    /\ waited = 0
    /\ raisedError = "none"
    /\ rq = RqIdle
    /\ StoreIdle

threadsFrame == <<retryVars, rq, cch, reg, remote, last, tl, view>>

\* utils.py:77  a thread enters can_make_request, from its caller or from the
\* loop of wait_for_next_slot: current_time = time.time()
ThrEnter(t) ==
    /\ thr[t].pc = "idle"
    /\ Len(admitted) < MaxAdmitted
    /\ thr' = [thr EXCEPT ![t] = [pc |-> "purge", current_time |-> now, kept |-> <<>>]]
    /\ UNCHANGED <<now, limiterVars, threadsFrame>>

\* utils.py:79-80  the list comprehension is evaluated
ThrPurge(t) ==
    /\ thr[t].pc = "purge"
    /\ thr' = [thr EXCEPT ![t].pc = "store",
                          ![t].kept = SelectInWindow(requests, thr[t].current_time,
                                                     time_window)]
    /\ UNCHANGED <<now, limiterVars, threadsFrame>>

\* utils.py:79  self.requests = <the new list>
ThrStore(t) ==
    /\ thr[t].pc = "store"
    /\ requests' = thr[t].kept
    /\ thr' = [thr EXCEPT ![t].pc = "check", ![t].kept = <<>>]
    /\ UNCHANGED <<now, max_requests, time_window, ret, admitted, threadsFrame>>

\* utils.py:82, 85  if len(self.requests) < self.max_requests, else return False
ThrCheck(t) ==
    /\ thr[t].pc = "check"
    /\ thr' = [thr EXCEPT ![t] = IF HasRoom(requests, max_requests)
                                 THEN [@ EXCEPT !.pc = "append"]
                                 ELSE ThreadIdle]
    /\ UNCHANGED <<now, limiterVars, threadsFrame>>

\* utils.py:83-84  self.requests.append(current_time); return True
ThrAppend(t) ==
    /\ thr[t].pc = "append"
    /\ requests' = Append(requests, thr[t].current_time)
    /\ admitted' = Append(admitted, thr[t].current_time)
    /\ thr' = [thr EXCEPT ![t] = ThreadIdle]
    /\ UNCHANGED <<now, max_requests, time_window, ret, threadsFrame>>

\* the clock advances
ThrTick ==
    /\ now < MaxThreadTime
    /\ now' = now + 1
    /\ UNCHANGED <<limiterVars, thr, threadsFrame>>

NextThreads ==
    \/ \E t \in Threads : ThrEnter(t)
    \/ \E t \in Threads : ThrPurge(t)
    \/ \E t \in Threads : ThrStore(t)
    \/ \E t \in Threads : ThrCheck(t)
    \/ \E t \in Threads : ThrAppend(t)
    \/ ThrTick

SpecThreads == InitThreads /\ [][NextThreads]_vars

\* C27: whatever the interleaving of two threads inside can_make_request, the
\* admissions whose timestamps lie within one time window never number more
\* than max_requests, and the list holds at most max_requests timestamps.
C27_ThreadsNeverOverAdmit ==
    /\ Len(requests) <= max_requests
    /\ \A i \in 1..Len(admitted) :
        Cardinality({j \in 1..Len(admitted) :
                        /\ admitted[j] >= admitted[i]
                        /\ admitted[j] - admitted[i] < time_window}) <= max_requests

\* ---- NoteManager: the read-only operations ---------------------------------
\* note_manager.py:93-100  the note_info records create_note writes
Projects == {None, Some(<<>>), Some(<<"P", "l">>)}
Departments == {None, Some(<<"l">>)}
NoteInfos(id) ==
    [id : {id}, title : Words(MaxWord) \ {<<>>}, parent_id : {NoId},
     project : Projects, department : Departments]

\* the notes of a registry that is searched: none, one, or two of which the
\* second has a title of one letter and no department
SearchedNotes ==
    {EmptyDict} \cup {<<a>> : a \in NoteInfos(1)}
        \cup {<<a, b>> : a \in NoteInfos(1),
                         b \in {c \in NoteInfos(2) :
                                   Len(c.title) = 1 /\ c.department = None}}

\* the notes of a registry that is read: none or one
ReadNotes ==
    {EmptyDict,
     <<[id |-> 1, title |-> <<"P", "l">>, parent_id |-> NoId, project |-> None,
        department |-> None]>>}

\* the folders of a registry: none, one, or one with a subfolder
ReadFolders ==
    {EmptyDict,
     FolderId :> [name |-> "Meetings", parent_id |-> NoId],
     (FolderId :> [name |-> "Meetings", parent_id |-> NoId])
        @@ (FolderId + 1 :> [name |-> "Meetings", parent_id |-> FolderId])}

\* note_manager.py:82-113, 187-216  the NoteManager after create_note for each
\* note and then create_folder for each folder, nothing having failed: the
\* folders are in folders_registry only, and the file was last written by
\* _save_registry
ReadRegistry(notes, folders) ==
    LET hierarchy == IF FolderId + 1 \in DOMAIN folders
                     THEN FolderId :> <<FolderId + 1>> ELSE EmptyDict
    IN  [notes |-> notes, nfolders |-> EmptyDict, hierarchy |-> hierarchy,
         extra |-> EmptyDict, folders |-> folders,
         file |-> [kind |-> "doc", notes |-> notes, folders |-> EmptyDict,
                   hierarchy |-> hierarchy, extra |-> EmptyDict],
         cache |-> [i \in DOMAIN notes |-> NoteValue(notes[i].title, "text", NoId)]]

\* everything but the registry at rest
ReadsIdle ==
    /\ now = 0
    /\ RetryIdle
    /\ rq = RqIdle
    /\ cch = CacheInit
    /\ remote = RemoteInit
    /\ last = LastNone
    /\ thr = ThrIdle
    /\ tl = ToolsInit
    /\ view = NoView

InitReads ==
    /\ ReadsIdle
    /\ \E notes \in ReadNotes, folders \in ReadFolders :
        reg = ReadRegistry(notes, folders)

InitSearch ==
    /\ ReadsIdle
    /\ \E notes \in SearchedNotes : reg = ReadRegistry(notes, EmptyDict)

readsFrame == <<now, limiterVars, retryVars, rq, cch, remote, last, thr, tl>>

\* the ids a caller asks for
AskedIds == ReadIds \cup {FolderId + 1}

Viewed(op, arg, o) ==
    /\ reg' = o.reg
    /\ view' = [op |-> op, arg |-> arg, result |-> o.result, none |-> o.none]

\* note_manager.py:169-185  get_note
GetNote ==
    /\ \E id \in AskedIds, ro \in {"raise", "none", "note"}, cv \in {"ok", "fail"} :
        Viewed("get_note", <<id>>, get_note(reg, id, ro, cv))
    /\ UNCHANGED readsFrame

\* note_manager.py:273-297  get_folder
GetFolder ==
    /\ \E id \in AskedIds, ro \in {"raise", "none", "data"}, sv \in SaveOutcomes :
        Viewed("get_folder", <<id>>, get_folder(reg, id, ro, sv))
    /\ UNCHANGED readsFrame

\* note_manager.py:299-317  list_subfolders
ListSubfolders ==
    /\ \E id \in {NoId} \cup AskedIds :
        Viewed("list_subfolders", <<id>>, list_subfolders(reg, id))
    /\ UNCHANGED readsFrame

\* note_manager.py:319-334  get_folder_path
GetFolderPath ==
    /\ \E id \in AskedIds :
        Viewed("get_folder_path", <<id>>,
               Returned(reg, get_folder_path(reg.folders, id, <<>>,
                                             Cardinality(DOMAIN reg.folders) + 1).path))
    /\ UNCHANGED readsFrame

\* note_manager.py:336-349  list_folder_notes
ListFolderNotes ==
    /\ \E id \in AskedIds :
        Viewed("list_folder_notes", <<id>>, list_folder_notes(reg, id))
    /\ UNCHANGED readsFrame

\* note_manager.py:351-358  list_all_notes
ListAllNotes ==
    /\ Viewed("list_all_notes", <<>>, Returned(reg, list_all_notes(reg.notes)))
    /\ UNCHANGED readsFrame

\* note_manager.py:360-374  search_notes(query)
SearchNotes ==
    /\ \E query \in Words(MaxWord) :
        Viewed("search_notes", query, Returned(reg, search_notes(reg.notes, query)))
    /\ UNCHANGED readsFrame

NextReads ==
    \/ GetNote
    \/ GetFolder
    \/ ListSubfolders
    \/ GetFolderPath
    \/ ListFolderNotes
    \/ ListAllNotes
    \/ SearchNotes

SpecReads == InitReads /\ [][NextReads]_vars

\* search_notes on every registry content
NextSearch == SearchNotes

SpecSearch == InitSearch /\ [][NextSearch]_vars

\* ---- SliteTools and SliteNoteManager ---------------------------------------
\* note_manager.py:83  def create_note(self, note, parent_id=None): the names
\* a call may pass by keyword, and the one it must pass
create_note_parameters == {"note", "parent_id"}
create_note_required == {"note"}

\* a Python call binds its keywords to the parameters or raises TypeError
Binds(keywords, parameters, required) ==
    keywords \subseteq parameters /\ required \subseteq keywords

\* langchain_integration.py:482-494  SliteNoteManager.process_meeting_notes:
\* self.note_manager.create_note(title=title, content=content), whose value,
\* the note id, is returned, and whose exception is raised again. A call that
\* does not bind raises in every pass of the wrapper and sends nothing
process_meeting_notes(t, post) ==
    IF ~Binds({"title", "content"}, create_note_parameters, create_note_required)
    THEN Done(t, Res("process_meeting_notes", "raised", "none", FALSE), <<>>)
    ELSE IF post = "raise"
    THEN Done(t, Res("process_meeting_notes", "raised", "none", FALSE),
              <<Req("POST", NoId, FALSE, <<>>)>>)
    ELSE Done(create_note_async(t, <<"P">>, post),
              [Res("process_meeting_notes", "id", "none", FALSE) EXCEPT
                    !.returned = t.nextId],
              <<Req("POST", t.nextId, TRUE, <<>>)>>)

\* a SliteTools over a service without notes; everything else at rest
InitTools ==
    /\ ReadsIdle
    /\ reg = RegInit

toolsFrame == <<now, limiterVars, retryVars, rq, cch, reg, remote, last, thr, view>>

\* the arguments a caller passes: titles to create notes with, titles to find
\* them by, ids
AskedTitles == {<<"p">>}
NewTitle == <<"p", "l">>
ToolInputs == {IdInput(i) : i \in ToolIds} \cup {TitleInput(w) : w \in AskedTitles}

\* the search a tool makes for a title, and no search at all
NoSearch == [raise |-> FALSE, hits |-> <<>>]
SearchesFor(input) == IF input.kind = "title" THEN SearchOutcomes(tl.notes) ELSE {NoSearch}
GetsFor(id) == IF id = NoId THEN {"none"} ELSE GetOutcomes(tl.notes, id)

\* a tool is called and leaves the SliteTools t; the caller calls at most
\* MaxToolCalls tools
Called(t) ==
    /\ tl.done < MaxToolCalls
    /\ tl' = [t EXCEPT !.done = tl.done + 1]

\* the service keeps at most MaxNotes notes' worth of ids
Room(post) == post # "raise" => tl.nextId <= MaxNotes

CreateNoteTool ==
    /\ \E title \in Titles, post \in PostOutcomes :
        /\ Room(post)
        /\ Called(create_note(tl, title, post))
    /\ UNCHANGED toolsFrame

ToolSearchNotes ==
    /\ \E search \in SearchOutcomes(tl.notes) : Called(tool_search_notes(tl, search))
    /\ UNCHANGED toolsFrame

UpdateNoteTool ==
    /\ \E input \in ToolInputs, append \in BOOLEAN :
        \E search \in SearchesFor(input) :
            LET id == UpdateTarget(input, search)
            IN  \E get \in (IF append THEN GetsFor(id) ELSE {"none"}),
                   put \in (IF id = NoId THEN {"none"} ELSE PutOutcomes(tl.notes, id)) :
                    /\ id \in DOMAIN tl.notes =>
                            Len(UpdateBody(tl.notes, id, append, get)) <= MaxContent
                    /\ Called(update_note(tl, input, append, search, get, put))
    /\ UNCHANGED toolsFrame

SummarizeNote ==
    /\ \E id \in ToolIds : \E get \in GetOutcomes(tl.notes, id) :
        Called(summarize_note(tl, id, get))
    /\ UNCHANGED toolsFrame

DeleteNoteTool ==
    /\ \E input \in ToolInputs \cup {NoInput} :
        \E search \in SearchesFor(DeleteArgument(tl, input)) :
            LET id == DeleteTarget(DeleteArgument(tl, input), search)
            IN  \E get \in GetsFor(id),
                   del \in (IF id = NoId THEN {"none"} ELSE DelOutcomes(tl.notes, id)) :
                    Called(delete_note(tl, input, search, get, del))
    /\ UNCHANGED toolsFrame

CreateFolderTool ==
    /\ \E post \in {"raise", "folder"} : Called(create_folder(tl, post))
    /\ UNCHANGED toolsFrame

CreateNoteInFolder ==
    /\ \E title \in Titles, named \in BOOLEAN, post \in PostOutcomes :
        \E fsearch \in (IF named THEN FolderSearchOutcomes ELSE {"none"}) :
            \E fpost \in (IF named /\ fsearch = "none" THEN {"raise", "folder"} ELSE {"folder"}) :
                /\ Room(post)
                /\ Called(create_note_in_folder(tl, title, named, fsearch, fpost, post))
    /\ UNCHANGED toolsFrame

RenameFolder ==
    /\ \E fsearch \in FolderSearchOutcomes :
        \E put \in (IF fsearch = "found" THEN {"raise", "ok"} ELSE {"ok"}) :
            Called(rename_folder(tl, fsearch, put))
    /\ UNCHANGED toolsFrame

RenameNote ==
    /\ \E note_title \in AskedTitles, search \in SearchOutcomes(tl.notes) :
        LET id == IF search.raise THEN NoId ELSE MatchOnly(search.hits, note_title)
        IN  \E get \in GetsFor(id),
               put \in (IF id = NoId THEN {"none"} ELSE {"raise", "ok"}) :
                Called(rename_note(tl, note_title, NewTitle, search, get, put))
    /\ UNCHANGED toolsFrame

ProcessMeetingNotes ==
    /\ \E post \in PostOutcomes :
        /\ Room(post)
        /\ Called(process_meeting_notes(tl, post))
    /\ UNCHANGED toolsFrame

NextTools ==
    \/ CreateNoteTool
    \/ ToolSearchNotes
    \/ UpdateNoteTool
    \/ SummarizeNote
    \/ DeleteNoteTool
    \/ CreateFolderTool
    \/ CreateNoteInFolder
    \/ RenameFolder
    \/ RenameNote
    \/ ProcessMeetingNotes

SpecTools == InitTools /\ [][NextTools]_vars

\* ---- properties of the read-only operations --------------------------------
\* two characters that differ at most in case
SameLetter(a, b) == a = b \/ {a, b} = {"p", "P"}

\* text contains query as a substring when case is ignored
ContainsIgnoringCase(text, query) ==
    \E i \in 0..(Len(text) - Len(query)) :
        \A k \in 1..Len(query) : SameLetter(text[i + k], query[k])

Mentions(note_info, query) ==
    \/ ContainsIgnoringCase(note_info.title, query)
    \/ (~note_info.project.none /\ ContainsIgnoringCase(note_info.project.text, query))
    \/ (~note_info.department.none
            /\ ContainsIgnoringCase(note_info.department.text, query))

\* C22: search_notes(query) returns, once each, exactly the registered notes
\* whose title, project or department contains the query when case is
\* ignored, and it leaves the registry, the registry file and the cache as
\* they were.
C22_SearchReturnsMatches ==
    [][view'.op = "search_notes" =>
        /\ ~view'.none
        /\ reg' = reg
        /\ \A i \in 1..Len(view'.result) :
            /\ view'.result[i].id \in DOMAIN reg.notes
            /\ view'.result[i] = reg.notes[view'.result[i].id]
            /\ \A j \in 1..Len(view'.result) :
                view'.result[j].id = view'.result[i].id => j = i
        /\ {view'.result[i].id : i \in 1..Len(view'.result)}
                = {id \in DOMAIN reg.notes : Mentions(reg.notes[id], view'.arg)}]_vars

\* a search whose query is in another case than the project it matches, that
\* returned one note for its project alone and left out the other note
C22_Witness ==
    /\ view.op = "search_notes"
    /\ view.arg = <<"p", "l">>
    /\ Len(view.result) = 1
    /\ ~ContainsIgnoringCase(view.result[1].title, view.arg)
    /\ DOMAIN reg.notes = {1, 2}

ReadOps ==
    {"get_note", "get_folder", "list_subfolders", "get_folder_path",
     "list_folder_notes", "list_all_notes", "search_notes"}

\* C26: a read-only operation leaves the registry file with the notes,
\* folders and folder_hierarchy it had.
C26_ReadsLeaveFile ==
    [][view'.op \in ReadOps =>
        /\ reg'.file.notes = reg.file.notes
        /\ reg'.file.folders = reg.file.folders
        /\ reg'.file.hierarchy = reg.file.hierarchy]_vars

\* ---- properties of SliteTools and SliteNoteManager --------------------------
ToolOps ==
    {"create_note", "search_notes", "update_note", "summarize_note", "delete_note",
     "create_folder", "create_note_in_folder", "rename_folder", "rename_note"}

\* the requests of the last tool call sent with method m
Sent(t, m) == {i \in 1..Len(t.calls) : t.calls[i].m = m}

\* C23: every SliteTools operation returns, without raising, a structured
\* result whose status is success or error and which carries a message.
C23_ToolsReturnStatusAndMessage ==
    tl.res.op \in ToolOps =>
        /\ tl.res.kind = "json"
        /\ tl.res.status \in {"success", "error"}
        /\ tl.res.message

\* C24: process_meeting_notes creates one note and returns a string that
\* reports the id of the created note.
C24_MeetingNotesCreated ==
    tl.res.op = "process_meeting_notes" =>
        /\ tl.res.kind = "text"
        /\ tl.res.returned # NoId
        /\ Cardinality({i \in Sent(tl, "POST") : tl.calls[i].ok}) = 1

\* two texts that differ at most in case
EqualIgnoringCase(a, b) ==
    /\ Len(a) = Len(b)
    /\ \A k \in 1..Len(a) : SameLetter(a[k], b[k])

\* C28: delete_note with a title sends a delete only for a found note whose
\* title equals the title when case is ignored; when no found note has such a
\* title it sends no delete and returns an error.
C28_DeleteByExactTitleOnly ==
    (tl.res.op = "delete_note" /\ tl.res.input.kind = "title") =>
        LET exact == {k \in 1..Len(tl.res.hits) :
                        EqualIgnoringCase(tl.res.hits[k].title, tl.res.input.text)}
        IN  /\ \A i \in Sent(tl, "DELETE") :
                    \E k \in exact : tl.res.hits[k].id = tl.calls[i].id
            /\ exact = {} => (Sent(tl, "DELETE") = {} /\ tl.res.status = "error")

StartsWith(text, head) ==
    Len(head) <= Len(text) /\ SubSeq(text, 1, Len(head)) = head
EndsWith(text, tail) ==
    Len(tail) <= Len(text) /\ SubSeq(text, Len(text) - Len(tail) + 1, Len(text)) = tail

\* C29: with append=True every update update_note_async sends carries the
\* content the note had followed by the new content, and when that content
\* was not read it sends no update and returns status error.
C29_AppendKeepsContent ==
    [][(tl'.res.op = "update_note" /\ tl'.res.append) =>
        /\ \A i \in Sent(tl', "PUT") :
                /\ tl'.calls[i].id \in DOMAIN tl.notes
                /\ StartsWith(tl'.calls[i].body, tl.notes[tl'.calls[i].id].content)
                /\ EndsWith(tl'.calls[i].body, UpdateContent)
                /\ Len(tl'.calls[i].body) >=
                        Len(tl.notes[tl'.calls[i].id].content) + Len(UpdateContent)
        /\ ~tl'.res.read => (Sent(tl', "PUT") = {} /\ tl'.res.status = "error")]_vars

\* the calls that store an id in last_note_id
Remembers(r) ==
    /\ r.status = "success"
    /\ \/ r.op \in {"create_note", "create_note_in_folder"}
       \/ r.op = "search_notes" /\ r.hits # <<>>

\* C30: last_note_id is empty or the id the most recent successful
\* create_note, create_note_in_folder or non-empty search_notes returned, never
\* the id of a note deleted successfully since; delete_note without an id and
\* with an empty last_note_id returns an error and sends nothing.
C30_LastNoteId ==
    [][/\ Remembers(tl'.res) => tl'.last_note_id \in {NoId, tl'.res.returned}
       /\ ~Remembers(tl'.res) => tl'.last_note_id \in {NoId, tl.last_note_id}
       /\ (tl'.res.op = "delete_note" /\ tl'.res.status = "success") =>
                tl'.last_note_id # tl'.res.returned
       /\ (tl'.res.op = "delete_note" /\ tl'.res.input.kind = "none"
                /\ tl.last_note_id = NoId) =>
                (tl'.res.status = "error" /\ tl'.calls = <<>>)]_vars

\* ---- properties of the NoteManager ---------------------------------------
\* C21: delete_note and delete_folder remove the entry of the id they were
\* called with exactly when the remote delete succeeded or the remote service
\* told that the item is already absent.
C21_RemovedIffRemoteGone ==
    /\ last.op = "delete_note" =>
            (last.id \notin DOMAIN reg.notes <=> last.remote \in {"ok", "absent"})
    /\ last.op = "delete_folder" =>
            (last.id \notin DOMAIN reg.folders <=> last.remote \in {"ok", "absent"})

\* C25: one call of create_note or create_folder issues at most one remote
\* create that succeeds.
C25_OneRemoteCreatePerCall ==
    last.op \in {"create_note", "create_folder"} =>
        Cardinality({i \in 1..Len(remote.log) : remote.log[i].ok}) <= 1

MutatingOps ==
    {"create_note", "create_folder", "update_note", "update_folder",
     "delete_note", "delete_folder"}
Succeeded(result) == result \in {"ok", "true"}
SuccessOn(log, id) == \E i \in 1..Len(log) : log[i].ok /\ log[i].id = id
NoSuccess(log) == \A i \in 1..Len(log) : ~log[i].ok
EntryOf(d, id) == IF id \in DOMAIN d THEN <<d[id]>> ELSE <<>>

Reloaded(r) == LoadRegistry(r.file, r.cache)

\* C13: after a successful mutating operation the registry file is one
\* document whose notes, folders and folder_hierarchy equal the in-memory
\* registry, and a reload from the file sees the same three mappings.
C13_FileMirrorsRegistry ==
    (last.op \in MutatingOps /\ Succeeded(last.result)) =>
        /\ reg.file.kind = "doc"
        /\ reg.file.notes = reg.notes
        /\ reg.file.folders = reg.folders
        /\ reg.file.hierarchy = reg.hierarchy
        /\ Reloaded(reg).notes = reg.notes
        /\ Reloaded(reg).folders = reg.folders
        /\ Reloaded(reg).hierarchy = reg.hierarchy

\* C14: an operation whose remote call succeeded and whose write of the
\* registry file failed ends with the distinct persistence error, not with
\* the result of an ordinary failure.
C14_PersistenceErrorSurfaced ==
    (last.op \in MutatingOps /\ last.remote = "ok" /\ last.save = "failed") =>
        last.result = "PersistenceError"

\* every note and folder names a parent that was created before it, and every
\* child list belongs to a folder created before its children
CreatedAfterParent(r) ==
    /\ \A f \in DOMAIN r.folders : r.folders[f].parent_id < f
    /\ \A n \in DOMAIN r.notes : r.notes[n].parent_id < n
    /\ \A p \in DOMAIN r.hierarchy :
        \A i \in 1..Len(r.hierarchy[p]) : p < r.hierarchy[p][i]

\* C15: once delete_folder has removed folder A from a registry whose folders
\* were each created after their parent, no folder of the registry has A as
\* its parent_id and no child list contains A.
C15_NoOrphanAfterCascade ==
    (/\ last.op = "delete_folder"
     /\ last.remote = "ok"
     /\ last.id \notin DOMAIN reg.folders
     /\ CreatedAfterParent(reg)) =>
        /\ \A f \in DOMAIN reg.folders : reg.folders[f].parent_id # last.id
        /\ \A p \in DOMAIN reg.hierarchy : ~InSeq(reg.hierarchy[p], last.id)

\* C16: after a successful delete_folder(f1) the registry holds neither f1
\* nor any note that was created, after f1, with parent f1.
C16_NotesGoWithFolder ==
    (last.op = "delete_folder" /\ last.result = "true" /\ CreatedAfterParent(reg)) =>
        /\ last.id \notin DOMAIN reg.folders
        /\ \A n \in DOMAIN reg.notes : reg.notes[n].parent_id # last.id

\* C17: after create_note(note, parent_id=f1) has succeeded the
\* folder_hierarchy lists the new note among the children of f1.
C17_NoteListedUnderParent ==
    (/\ last.op = "create_note"
     /\ last.result = "ok"
     /\ last.id \in DOMAIN reg.notes
     /\ reg.notes[last.id].parent_id # NoId) =>
        InSeq(Children(reg, reg.notes[last.id].parent_id), last.id)

\* C18: in a registry whose entries were each created after their parent,
\* every id in a child list of folder_hierarchy is the id of a note or folder
\* of the registry.
C18_ChildrenExist ==
    CreatedAfterParent(reg) => \A p \in DOMAIN reg.hierarchy :
        \A i \in 1..Len(reg.hierarchy[p]) : Registered(reg, reg.hierarchy[p][i])

\* C19: no folder is its own ancestor along parent_id, and get_folder_path
\* ends for every folder id.
C19_ParentChainAcyclic ==
    \A f \in Ids : get_folder_path(reg.folders, f, <<>>, MaxIds + 1).ended

\* the position of the first remote delete issued for id, 0 when there is none
FirstDelete(log, op, id) ==
    IF \E i \in 1..Len(log) : log[i].op = op /\ log[i].id = id
    THEN CHOOSE i \in 1..Len(log) :
            /\ log[i].op = op /\ log[i].id = id
            /\ \A j \in 1..(i - 1) : ~(log[j].op = op /\ log[j].id = id)
    ELSE 0

\* C20: on a registry whose entries were each created after their parent,
\* delete_folder issues the remote delete of a folder only after it has
\* issued the remote delete of every note and of every subfolder that the
\* registry holds under that folder.
C20_LeavesBeforeParents ==
    [][(last'.op = "delete_folder" /\ CreatedAfterParent(reg)) =>
        \A f \in DOMAIN reg.folders :
            LET at == FirstDelete(remote'.log, "delete_folder", f)
            IN  at # 0 =>
                /\ \A n \in DOMAIN reg.notes :
                    reg.notes[n].parent_id = f =>
                        LET dn == FirstDelete(remote'.log, "delete_note", n)
                        IN  dn # 0 /\ dn < at
                /\ \A g \in DOMAIN reg.folders :
                    (g # f /\ reg.folders[g].parent_id = f) =>
                        LET dg == FirstDelete(remote'.log, "delete_folder", g)
                        IN  dg # 0 /\ dg < at]_vars

\* ---- histories read by the properties -----------------------------------
Indices(ev) == {i \in 1..Len(trace) : trace[i].ev = ev}
Invocations == Cardinality(Indices("invoke"))
Admissions == Cardinality(Indices("admit"))
Sleeps == Cardinality(Indices("sleep"))
Failed(i) == trace[i].ev = "invoke" /\ trace[i].out # "ok"
Range(seq) == {seq[i] : i \in 1..Len(seq)}
Oldest(reqs) == CHOOSE t \in Range(reqs) : \A u \in Range(reqs) : t <= u
\* the number of sleep events among the first i events of the trace
SleepsUpTo(i) == Cardinality({k \in Indices("sleep") : k <= i})

\* C1: one call of a function wrapped with retries=R invokes the operation at
\* most R+1 times, and nothing is invoked after an invocation that succeeded.
C1_AttemptsBounded ==
    /\ Invocations <= retries + 1
    /\ \A i \in Indices("invoke") : trace[i].out = "ok" => i = Len(trace)

C1_Witness ==
    /\ pc = "returned"
    /\ retries >= 2
    /\ Invocations = retries + 1

\* C2 (as stated): with retries=3 the operation is executed at most 3 times in
\* total, the third failure being raised without a fourth attempt.
C2_AtMostNAttempts == retries = 3 => Invocations <= 3

\* C2 (amended): the wrapper raises only after retries+1 failed invocations;
\* the failure raised is that of the last invocation.
C2_RaisesAfterNPlusOne ==
    pc = "raised" =>
        /\ Invocations = retries + 1
        /\ \A i \in Indices("invoke") : Failed(i)
        /\ raisedError = trace[Len(trace)].out

C2_Witness ==
    /\ pc = "raised"
    /\ retries = 3
    /\ Invocations = 4

\* C3: a ValidationError raised by the wrapped operation is surfaced after
\* exactly one attempt, with no sleep and no further invocation.
C3_ValidationNotRetried ==
    (\E i \in Indices("invoke") : trace[i].out = "ValidationError") =>
        /\ Invocations = 1
        /\ Sleeps = 0
        /\ pc \in {"raised", "idle"}
        /\ raisedError = "ValidationError"

\* C7: admitted calls less than time_window apart never number more than
\* max_requests, the timestamp list never holds more than max_requests
\* entries, and a rejected call records no timestamp.
C7_WindowNeverExceeded ==
    /\ [](/\ Len(requests) <= max_requests
          /\ \A i \in 1..Len(admitted) :
                Cardinality({j \in 1..i : admitted[i] - admitted[j] < time_window})
                    <= max_requests)
    /\ [][((DirectCanMakeRequest \/ Poll) /\ ~ret') =>
            /\ admitted' = admitted
            /\ Len(requests') <= Len(requests)
            /\ Range(requests') \subseteq Range(requests)]_vars

C7_Witness ==
    /\ max_requests >= 1
    /\ ~ret
    /\ Len(requests) = max_requests
    /\ Len(admitted) > max_requests

\* C8: with max_requests >= 1 timestamps recorded, a poll of
\* wait_for_next_slot admits the caller exactly when the oldest recorded
\* timestamp is at least time_window seconds old; until then the caller
\* sleeps one second and polls again.
C8_BlocksUntilOldestExpires ==
    [][/\ (Poll /\ max_requests >= 1 /\ Len(requests) = max_requests) =>
            /\ ret' <=> (now - Oldest(requests) >= time_window)
            /\ ret' => pc' = "call"
            /\ ~ret' => pc' = "pollsleep"
       /\ PollSleep => (now' = now + 1 /\ pc' = "wait")]_vars

C8_Witness ==
    /\ pc = "call"
    /\ time_window >= 2
    /\ waited = time_window

\* C9: every invocation of the wrapped operation is directly preceded by an
\* admission of its own, so invocations never outnumber the timestamps the
\* limiter recorded for the call.
C9_AdmittedBeforeEachAttempt ==
    /\ Invocations <= Admissions
    /\ \A i \in Indices("invoke") : i > 1 /\ trace[i - 1].ev = "admit"
    /\ pc = "call" => Admissions = Invocations + 1

C9_Witness ==
    /\ Invocations = 3
    /\ Admissions = 3
    /\ \A i \in Indices("invoke") : Failed(i)

\* C10: the wrapper sleeps exactly once after each failed attempt that is
\* followed by another attempt and never after the final attempt; without the
\* jitter the k-th sleep lasts backoff_in_seconds * 2^(k-1), so the delays
\* never decrease.
C10_BackoffSchedule ==
    /\ \A i \in Indices("sleep") : i > 1 /\ Failed(i - 1)
    /\ \A i \in Indices("invoke") :
            SleepsUpTo(i) = Cardinality({k \in Indices("invoke") : k < i})
    /\ pc \in {"returned", "raised"} => trace[Len(trace)].ev = "invoke"
    /\ \A i \in Indices("sleep") :
            trace[i].d = backoff_in_seconds * Pow2(SleepsUpTo(i) - 1)
    /\ \A i, k \in Indices("sleep") : i < k => trace[i].d <= trace[k].d

C10_Witness ==
    /\ backoff_in_seconds >= 1
    /\ Sleeps = 3
    /\ pc = "raised"

\* ---- properties of _make_request ----------------------------------------
PermanentStatuses == {400, 401, 403, 404}
Retryable(resp) == resp.kind # "status" \/ resp.status = 429 \/ resp.status >= 500

\* the error class the taxonomy assigns to a failure status
TypedClass(status) ==
    IF status \in {401, 403} THEN "AuthenticationError"
    ELSE IF status = 404 THEN "NotFoundError"
    ELSE IF status = 400 THEN "ValidationError"
    ELSE IF status = 429 THEN "RateLimitError"
    ELSE "ServerError"

\* C4: a response with status 401, 403, 404 or 400 ends the call: exactly one
\* HTTP request is sent and the error is raised without a retry.
C4_PermanentNotRetried ==
    (Len(rq.log) >= 1 /\ rq.log[1].status \in PermanentStatuses) =>
        /\ rq.sent = 1
        /\ rq.pc \in {"failed", "raised"}

\* C5: the error raised for a failure status has the class of its status
\* family, so the class tells a retryable failure from a permanent one.
C5_TypedErrors ==
    (rq.pc \in {"failed", "raised"} /\ Len(rq.log) >= 1
        /\ rq.log[Len(rq.log)].kind = "status") =>
            rq.err.cls = TypedClass(rq.log[Len(rq.log)].status)

\* C6: a call never sends more than 3 HTTP requests; a first attempt that
\* fails with 429, 5xx or a transport error is followed by another attempt;
\* the error raised when the call gives up is that of the last attempt.
C6_RetriedAtMostThreeTimes ==
    /\ rq.sent <= 3
    /\ (rq.pc = "raised" /\ rq.session) =>
            /\ rq.tries >= 2
            /\ rq.sent = rq.tries
            /\ Len(rq.log) = rq.tries
            /\ rq.result = Classify(rq.method, rq.log[Len(rq.log)])
    /\ (rq.tries = 1 /\ rq.session /\ Len(rq.log) = 1 /\ Retryable(rq.log[1])) =>
            rq.pc \in {"failed", "sleep", "top"}

C6_Witness ==
    /\ rq.pc = "raised"
    /\ rq.sent = 3
    /\ \A i \in 1..Len(rq.log) : Retryable(rq.log[i])
    /\ rq.log[1].status = 429
    /\ rq.log[2].status = 503
    /\ rq.log[3].kind = "TimeoutError"

TypeOK ==
    /\ now \in 0..MaxTime
    /\ pc \in {"idle", "wait", "pollsleep", "call", "backoff", "returned", "raised"}
    /\ x \in 0..MaxRetries + 1
====
